---- MODULE Spec2Model ----
(***************************************************************************)
(* gkit: the command registry (core.ts), the argument marshaling of the    *)
(* HTTP routes (server.ts) and of the MCP tool-call handler, the process   *)
(* invoker executeGkit, and the command router of gkit.sh.                 *)
(*                                                                         *)
(* Text is a sequence of symbols.  A symbol is either a whitespace         *)
(* character or an opaque run of non-whitespace characters, so that        *)
(* concatenation, trimming, joining and word splitting are computed.       *)
(* A JavaScript value is a pair <<type tag, payload>>.                     *)
(***************************************************************************)
EXTENDS Integers, Sequences, FiniteSets, TLC

\* ------------------------------------------------------------ bounds
\* The most 'data' events delivered on each stream of one child.
MaxChunks == 2

\* ------------------------------------------------------------ state
\* reqs[s]: the request being served in slot s and everything it caused.
\* srv: what the servers hold after start-up: the command map they imported,
\* the registry entries that got a route, those that were warned about, and
\* whether the HTTP server listens.
VARIABLES reqs, srv
vars == <<reqs, srv>>

\* ------------------------------------------------------------ JS values
undefined == <<"undefined", <<>>>>
null == <<"null", <<>>>>
Str(t) == <<"string", t>>
Num(n) == <<"number", n>>
Obj(pairs) == <<"object", pairs>>
Fun(n) == <<"function", n>>

TypeOf(v) == IF v[1] = "null" THEN "object" ELSE v[1]

\* JavaScript truthiness of the values that occur here.
Truthy(v) ==
  CASE v[1] = "undefined" -> FALSE
    [] v[1] = "null" -> FALSE
    [] v[1] = "string" -> v[2] # <<>>
    [] v[1] = "number" -> v[2] # 0
    [] OTHER -> TRUE

\* Names every object inherits from Object.prototype (a sample).
ObjectPrototypeKeys == {<<"toString">>, <<"constructor">>}

\* obj[key] for a parsed JSON object: the last pair with that key wins.
GetProp(obj, key) ==
  LET hits == {i \in 1..Len(obj[2]) : obj[2][i][1] = key}
  IN IF obj[1] # "object" \/ hits = {} THEN undefined
     ELSE obj[2][CHOOSE i \in hits : \A j \in hits : j <= i][2]

\* ------------------------------------------------------------ text
Whitespace == {" ", "\n"}

RECURSIVE TrimStart(_)
TrimStart(t) ==
  IF t # <<>> /\ Head(t) \in Whitespace THEN TrimStart(Tail(t)) ELSE t

RECURSIVE TrimEnd(_)
TrimEnd(t) ==
  IF t # <<>> /\ t[Len(t)] \in Whitespace
  THEN TrimEnd(SubSeq(t, 1, Len(t) - 1)) ELSE t

\* A mutant of Trim: strips the leading whitespace only.
TrimLeadingOnly(t) == TrimStart(t)

\* String.prototype.trim
Trim(t) == TrimEnd(TrimStart(t))

RECURSIVE Concat(_)
Concat(chunks) ==
  IF chunks = <<>> THEN <<>> ELSE Head(chunks) \o Concat(Tail(chunks))

\* ------------------------------------------------------------ registry
Name2(a, b) == <<a, "_", b>>
Name3(a, b, c) == <<a, "_", b, "_", c>>
Name4(a, b, c, d) == <<a, "_", b, "_", c, "_", d>>

GkitCommands == <<
  [name |-> Name2("create", "pr"),
   properties |-> <<"base", "title">>, required |-> <<>>],
  [name |-> Name4("create", "pr", "to", "staging"),
   properties |-> <<"remote", "title">>, required |-> <<>>],
  [name |-> Name2("create", "branch"),
   properties |-> <<"branch", "from", "remote">>, required |-> <<"branch">>],
  [name |-> Name4("create", "branch", "from", "staging"),
   properties |-> <<"branch", "remote">>, required |-> <<"branch">>],
  [name |-> Name3("create", "hotfix", "branch"),
   properties |-> <<"branch", "from", "remote">>, required |-> <<"branch">>],
  [name |-> Name2("approve", "pr"),
   properties |-> <<"pr_url">>, required |-> <<"pr_url">>],
  [name |-> Name2("merge", "pr"),
   properties |-> <<"pr_url">>, required |-> <<"pr_url">>],
  [name |-> Name2("trigger", "workflow"),
   properties |-> <<"pr_url">>, required |-> <<"pr_url">>],
  [name |-> Name3("send", "slack", "message"),
   properties |-> <<"message">>, required |-> <<"message">> ] >>

\* The declared defaults of the input schemas (documentation only).
SchemaDefaults == {<<"release">>, <<"origin">>, <<"develop">>, <<"main">>}

ToolToGkitCommandMap ==
  Name2("create", "pr") :> <<"pr">> @@
  Name4("create", "pr", "to", "staging") :> <<"prs">> @@
  Name2("create", "branch") :> <<"nb">> @@
  Name4("create", "branch", "from", "staging") :> <<"nbs">> @@
  Name3("create", "hotfix", "branch") :> <<"nbh">> @@
  Name2("approve", "pr") :> <<"ap">> @@
  Name2("merge", "pr") :> <<"mg">> @@
  Name2("trigger", "workflow") :> <<"wf">> @@
  Name3("send", "slack", "message") :> <<"sl">>

ToolNames == {GkitCommands[i].name : i \in DOMAIN GkitCommands}

\* map[name] as JavaScript evaluates it: an own property, else an inherited
\* one, else undefined.
MapLookupIn(map, name) ==
  IF name \in DOMAIN map THEN Str(map[name])
  ELSE IF name \in ObjectPrototypeKeys THEN Fun(name)
  ELSE undefined

\* ToolToGkitCommandMap[name], in the map the servers imported.
MapLookup(name) == MapLookupIn(srv.map, name)

\* GkitCommands.find(t => t.name === name): the index, 0 for undefined.
FindTool(name) ==
  LET hits == {i \in DOMAIN GkitCommands : GkitCommands[i].name = name}
  IN IF hits = {} THEN 0 ELSE CHOOSE i \in hits : \A j \in hits : i <= j


\* ------------------------------------------------------------ HTTP routes
\* A mutant of Endpoint: String.replace with a string pattern replaces the
\* first underscore only.
EndpointFirstOnly(name) ==
  LET us == {i \in 1..Len(name) : name[i] = "_"}
  IN <<"/api/">> \o [i \in 1..Len(name) |->
       IF i \in us /\ (\A j \in us : i <= j) THEN "-" ELSE name[i]]

\* `/api/${tool.name.replace(/_/g, '-')}`
Endpoint(name) ==
  <<"/api/">> \o [i \in 1..Len(name) |-> IF name[i] = "_" THEN "-" ELSE name[i]]

\* The entries of GkitCommands that get a route: those with a mapping.
Registered == {i \in DOMAIN GkitCommands : Truthy(MapLookup(GkitCommands[i].name))}

\* A mutant of RouteOf: the route table also answers the tool name itself.
RouteOfLoose(path) ==
  LET hits == {i \in Registered : path \in {Endpoint(GkitCommands[i].name),
                                            <<"/api/">> \o GkitCommands[i].name}}
  IN IF hits = {} THEN 0 ELSE CHOOSE i \in hits : \A j \in hits : i <= j

\* The route express picks for a POST to path: the first registered one whose
\* endpoint is the path, 0 when there is none.
RouteOf(path) ==
  LET hits == {i \in Registered : Endpoint(GkitCommands[i].name) = path}
  IN IF hits = {} THEN 0 ELSE CHOOSE i \in hits : \A j \in hits : i <= j

\* A mutant of Startup: an entry without a mapping stops the server.
StartupStrict(map) ==
  LET mapped == {i \in DOMAIN GkitCommands : Truthy(MapLookupIn(map, GkitCommands[i].name))}
  IN [map |-> map, routes |-> mapped, warned |-> {},
      listening |-> (mapped = DOMAIN GkitCommands)]

\* The start of server.ts with the given command map: an entry with a mapping
\* gets its route, one without is warned about and skipped, and app.listen
\* is called whatever happened before.
Startup(map) ==
  LET mapped == {i \in DOMAIN GkitCommands : Truthy(MapLookupIn(map, GkitCommands[i].name))}
  IN [map |-> map, routes |-> mapped, warned |-> DOMAIN GkitCommands \ mapped,
      listening |-> TRUE]

\* A mutant of MissingRequired: a missing parameter goes unnoticed.
MissingRequiredNone(tool, body) == 0

\* The loop over requiredParams: the index in `required` of the first
\* parameter whose body entry is undefined, 0 when none is.
MissingRequired(tool, body) ==
  LET miss == {i \in DOMAIN tool.required : GetProp(body, tool.required[i]) = undefined}
  IN IF miss = {} THEN 0 ELSE CHOOSE i \in miss : \A j \in miss : i <= j

RequiredMessage(param) == <<"Parameter '", param, "' is required">>

\* paramOrder.forEach(param => { if (req.body[param] !== undefined) args.push(...) })
RECURSIVE PushDefined(_, _, _)
PushDefined(args, paramOrder, body) ==
  IF paramOrder = <<>> THEN args
  ELSE PushDefined(
         IF GetProp(body, Head(paramOrder)) # undefined
         THEN Append(args, GetProp(body, Head(paramOrder))) ELSE args,
         Tail(paramOrder), body)

\* A mutant of HttpArgs: an absent parameter leaves an empty placeholder.
HttpArgsPlaceholder(tool, body) ==
  [i \in DOMAIN tool.properties |->
     IF GetProp(body, tool.properties[i]) = undefined THEN Str(<<>>)
     ELSE GetProp(body, tool.properties[i])]

\* A mutant of HttpArgs: the arguments follow the key order of the body.
HttpArgsBodyOrder(tool, body) ==
  LET declared == {tool.properties[i] : i \in DOMAIN tool.properties}
      kept == SelectSeq(body[2], LAMBDA kv : kv[1] \in declared /\ kv[2] # undefined)
  IN [i \in DOMAIN kept |-> kept[i][2]]

\* A mutant of HttpArgs: an empty string is skipped like an absent value.
HttpArgsSkipEmpty(tool, body) ==
  SelectSeq(PushDefined(<<>>, tool.properties, body), LAMBDA v : v # Str(<<>>))

\* A mutant of HttpArgs: an absent `from` is filled with its default.
HttpArgsDefault(tool, body) ==
  LET vals == [i \in DOMAIN tool.properties |->
                 IF tool.properties[i] = "from"
                    /\ GetProp(body, tool.properties[i]) = undefined
                 THEN Str(<<"develop">>)
                 ELSE GetProp(body, tool.properties[i])]
  IN SelectSeq(vals, LAMBDA v : v # undefined)

\* A mutant of HttpArgs: the optional parameters are pushed first.
HttpArgsOptionalFirst(tool, body) ==
  LET req == {tool.required[i] : i \in DOMAIN tool.required}
  IN PushDefined(PushDefined(<<>>, SelectSeq(tool.properties, LAMBDA p : p \notin req), body),
                 SelectSeq(tool.properties, LAMBDA p : p \in req), body)

\* The argument list the HTTP route builds.
HttpArgs(tool, body) == PushDefined(<<>>, tool.properties, body)

\* ------------------------------------------------------------ MCP handler
\* A mutant of McpArgs: the filter is left out.
McpArgsNoFilter(tool, args) ==
  [i \in DOMAIN tool.properties |-> GetProp(args, tool.properties[i])]

\* paramOrder.map(param => args[param]).filter(v => v !== undefined)
McpArgs(tool, args) ==
  SelectSeq([i \in DOMAIN tool.properties |-> GetProp(args, tool.properties[i])],
            LAMBDA v : v # undefined)

AdvancedNames == {Name2("review", "code"), <<"commit">>, Name2("rv", "pr")}

\* A mutant of InvalidArguments: only missing arguments are turned away.
InvalidArgumentsMissingOnly(args) == args = undefined

\* if (!args || typeof args !== 'object')
InvalidArguments(args) == ~Truthy(args) \/ TypeOf(args) # "object"


\* ------------------------------------------------------------ executeGkit
\* What Array.prototype.join makes of one element.
JoinString(v) ==
  CASE v[1] = "string" -> v[2]
    [] v[1] = "number" -> <<ToString(v[2])>>
    [] v[1] \in {"undefined", "null"} -> <<>>
    [] OTHER -> <<"[object", " ", "Object]">>

\* [file, ...args].join(' '): the command line spawn hands to the shell
\* when the shell option is set.
RECURSIVE JoinSpace(_)
JoinSpace(vs) ==
  IF vs = <<>> THEN <<>>
  ELSE IF Len(vs) = 1 THEN JoinString(vs[1])
  ELSE JoinString(Head(vs)) \o <<" ">> \o JoinSpace(Tail(vs))

CommandLine(command, args) == JoinSpace(<<Str(<<"./gkit.sh">>), Str(command)>> \o args)

\* The words the shell splits a command line into (whitespace only).
RECURSIVE ShellWords(_, _)
ShellWords(line, word) ==
  IF line = <<>> THEN (IF word = <<>> THEN <<>> ELSE <<word>>)
  ELSE IF Head(line) \in Whitespace
       THEN (IF word = <<>> THEN <<>> ELSE <<word>>) \o ShellWords(Tail(line), <<>>)
       ELSE ShellWords(Tail(line), Append(word, Head(line)))

\* The first command of a command line: the shell ends it at a ';' and takes
\* what follows as a command of its own.
RECURSIVE FirstCommand(_)
FirstCommand(line) ==
  IF line = <<>> \/ Head(line) = ";" THEN <<>>
  ELSE <<Head(line)>> \o FirstCommand(Tail(line))

\* "$@" of gkit.sh for a child spawned by executeGkit.
ChildParams(command, args) ==
  Tail(ShellWords(FirstCommand(CommandLine(command, args)), <<>>))

\* A mutant of ExecResult: any exit code but 1 counts as success.
ExecResultNotOne(stdout, stderr, code) ==
  [keys |-> {"success", "output", "error"},
   success |-> (code # Num(1)), output |-> Trim(stdout), error |-> Trim(stderr)]

\* A mutant of ExecResult: the two streams are swapped.
ExecResultSwapped(stdout, stderr, code) ==
  [keys |-> {"success", "output", "error"},
   success |-> (code = Num(0)), output |-> Trim(stderr), error |-> Trim(stdout)]

\* The value the 'close' handler resolves the promise with.
ExecResult(stdout, stderr, code) ==
  [keys |-> {"success", "output", "error"},
   success |-> (code = Num(0)), output |-> Trim(stdout), error |-> Trim(stderr)]

NoJson == [keys |-> {}, success |-> FALSE, output |-> <<>>, error |-> <<>>]

\* ------------------------------------------------------------ gkit.sh
RequiredBinaries == {"gh", "fzf", "jq"}

\* A mutant of CaseTable: `sl` is not a sub-command, only `slack` is.
CaseTableNoSl ==
  <<"prs">> :> "gk_prs" @@ <<"pr">> :> "gk_pr" @@ <<"slack">> :> "gk_slack" @@
  <<"nb">> :> "gk_nb" @@ <<"nbs">> :> "gk_nbs" @@ <<"nbh">> :> "gk_nbh" @@
  <<"ap">> :> "gk_approve" @@ <<"approve">> :> "gk_approve" @@
  <<"mg">> :> "gk_merge" @@ <<"merge">> :> "gk_merge" @@ <<"wf">> :> "gk_wf" @@
  <<"help">> :> "gk_help" @@ <<"-h">> :> "gk_help" @@ <<"--help">> :> "gk_help"

\* The case table of main: sub-command token -> function.
CaseTable ==
  <<"prs">> :> "gk_prs" @@ <<"pr">> :> "gk_pr" @@
  <<"sl">> :> "gk_slack" @@ <<"slack">> :> "gk_slack" @@
  <<"nb">> :> "gk_nb" @@ <<"nbs">> :> "gk_nbs" @@ <<"nbh">> :> "gk_nbh" @@
  <<"ap">> :> "gk_approve" @@ <<"approve">> :> "gk_approve" @@
  <<"mg">> :> "gk_merge" @@ <<"merge">> :> "gk_merge" @@
  <<"wf">> :> "gk_wf" @@
  <<"help">> :> "gk_help" @@ <<"-h">> :> "gk_help" @@ <<"--help">> :> "gk_help"

\* A mutant of Main: an unknown sub-command falls through to gk_pr.
MainFallThrough(params, missing) ==
  IF missing # {} \/ params = <<>> \/ params[1] = <<>>
  THEN [branch |-> "early", op |-> "none", fargs |-> <<>>, help |-> TRUE, status |-> 1]
  ELSE [branch |-> "case", op |-> "gk_pr", fargs |-> Tail(params),
        help |-> FALSE, status |-> -1]

\* main "$@": the branch taken, the operation called with its parameters,
\* whether gk_help ran, and the exit status main itself decides (-1: the
\* status is the operation's).
Main(params, missing) ==
  IF missing # {}
  THEN [branch |-> "deps", op |-> "none", fargs |-> <<>>, help |-> FALSE, status |-> 1]
  ELSE IF params = <<>> \/ params[1] = <<>>
  THEN [branch |-> "empty", op |-> "none", fargs |-> <<>>, help |-> TRUE, status |-> 0]
  ELSE IF params[1] \in DOMAIN CaseTable
  THEN IF CaseTable[params[1]] = "gk_help"
       THEN [branch |-> "case", op |-> "none", fargs |-> <<>>, help |-> TRUE, status |-> 0]
       ELSE [branch |-> "case", op |-> CaseTable[params[1]], fargs |-> Tail(params),
             help |-> FALSE, status |-> -1]
  ELSE [branch |-> "unknown", op |-> "none", fargs |-> <<>>, help |-> TRUE, status |-> 1]

NoSh == [branch |-> "none", op |-> "none", fargs |-> <<>>, help |-> FALSE, status |-> -1]

\* "$i" inside a function: the i-th parameter, empty when unset.
Param(fargs, i) == IF i <= Len(fargs) THEN fargs[i] ELSE <<>>

\* A mutant of ParamOr: the default replaces the parameter in every case.
ParamOrAlways(fargs, i, word) == word

\* "${i:-word}"
ParamOr(fargs, i, word) == IF Param(fargs, i) # <<>> THEN Param(fargs, i) ELSE word

\* gk_nb: the remote it fetches and pushes to, the branch it creates and the
\* start point it checks out.
NbPlan(fargs) ==
  [remote |-> ParamOr(fargs, 3, <<"origin">>),
   branch |-> Param(fargs, 1),
   start |-> ParamOr(fargs, 3, <<"origin">>) \o <<"/">> \o ParamOr(fargs, 2, <<"develop">>)]


\* ------------------------------------------------------------ gkit.sh run
\* What a piece of the script did: the commands it ran in order, the status
\* of the last one, and whether it goes on ("no"), left the function with
\* `return` or ended the process ("exit": an explicit exit, or a failing
\* command under `set -e`).
R(log, st, stop) == [log |-> log, st |-> st, stop |-> stop]

Entry(cmd, args) == [cmd |-> cmd, args |-> args]

\* A function is entered.
Enter(f) == R(<<Entry("call", <<<<f>>>>)>>, 0, "no")

Echo(t) == R(<<Entry("echo", <<<<t>>>>)>>, 0, "no")

\* A command where `set -e` ignores its status: not the last of an && list,
\* left of ||, or between set +e and set -e.
CmdNoExit(cmd, args, ok) == R(<<Entry(cmd, args)>>, IF ok THEN 0 ELSE 1, "no")

\* A simple command under `set -e` that ends with the given status.
CmdStatus(cmd, args, st) == R(<<Entry(cmd, args)>>, st, IF st = 0 THEN "no" ELSE "exit")

\* A simple command under `set -e`: git, gh and curl fail with status 1 here.
Cmd(cmd, args, ok) == CmdStatus(cmd, args, IF ok THEN 0 ELSE 1)

\* a; b; c ... : what follows a return or an exit does not run.
RECURSIVE Then(_)
Then(steps) ==
  IF Len(steps) = 1 \/ Head(steps).stop # "no" THEN Head(steps)
  ELSE LET rest == Then(Tail(steps))
       IN R(Head(steps).log \o rest.log, rest.st, rest.stop)

\* a && b && c under `set -e`: the list stops at the first failure, and only
\* a failure of the last command ends the script.
AndList3(a, b, c) ==
  IF a.st # 0 THEN R(a.log, a.st, "no")
  ELSE IF b.st # 0 THEN R(a.log \o b.log, b.st, "no")
  ELSE R(a.log \o b.log \o c.log, c.st, IF c.st # 0 THEN "exit" ELSE "no")

\* cmd || return 1
OrReturn1(c) == IF c.st = 0 THEN c ELSE R(c.log, 1, "return")

\* A function called as a simple command under `set -e`: a non-zero return
\* ends the script.
Call(f) == R(f.log, f.st, IF f.stop = "exit" \/ f.st # 0 THEN "exit" ELSE "no")

\* The fields awk -F/ splits a text into.
RECURSIVE AwkFields(_, _)
AwkFields(text, field) ==
  IF text = <<>> THEN <<field>>
  ELSE IF Head(text) = "/" THEN <<field>> \o AwkFields(Tail(text), <<>>)
  ELSE AwkFields(Tail(text), Append(field, Head(text)))

\* awk -F/ '{print $i}'
AwkField(text, i) ==
  IF text # <<>> /\ i <= Len(AwkFields(text, <<>>)) THEN AwkFields(text, <<>>)[i] ELSE <<>>

\* A mutant of VersionLess: plain sort, which compares the minor numbers as
\* strings of digits (10 before 9).
VersionLessLexical(a, b) ==
  LET first(n) == IF n < 10 THEN n ELSE n \div 10
  IN \/ a[1] < b[1]
     \/ a[1] = b[1] /\ first(a[2]) < first(b[2])
     \/ a[1] = b[1] /\ first(a[2]) = first(b[2]) /\ a[2] < b[2]

\* sort -V on two versions major.minor.
VersionLess(a, b) == a[1] < b[1] \/ (a[1] = b[1] /\ a[2] < b[2])

\* git branch -r | grep 'origin/release/v' | sed ... | sort -V | tail -n1
LatestRelease(releases) ==
  IF releases = {} THEN <<>>
  ELSE LET v == CHOOSE v \in releases : \A w \in releases : w = v \/ VersionLess(w, v)
       IN <<ToString(v[1]), ".", ToString(v[2])>>

check_deps(env) ==
  LET note(b) == IF b \in env.missing THEN <<Entry("echo", <<<<b, " not found">>>>)>> ELSE <<>>
  IN R(note("gh") \o note("fzf") \o note("jq"),
       IF env.missing # {} THEN 1 ELSE 0,
       IF env.missing # {} THEN "exit" ELSE "no")

gk_help == Then(<<Enter("gk_help"), Echo("Usage: $0 <command> [arguments...]")>>)

\* gk_slack "$@" with n parameters.
gk_slack(n, message, env) ==
  Then(<<Enter("gk_slack"),
        IF ~env.slackToken THEN R(Echo("SLACK_TOKEN not set").log, 1, "return")
        ELSE IF n < 1 THEN R(Echo("Usage: gk_slack <message>").log, 1, "return")
        ELSE Then(<<Echo("Sending message"),
                   Cmd("curl chat.postMessage", <<message>>, env.slack # "curlfail"),
                   IF env.slack = "ok" THEN Echo("Sent") ELSE Echo("Error")>>)>>)

\* The integration-branch part of gk_pr, taken when the base is develop.
PrIntegration(env) ==
  Then(<<Echo("Preparing integration branch"),
        Cmd("git fetch", <<<<"origin">>>>, env.fetch),
        Cmd("git checkout -b", <<<<"to-develop">>, <<"origin", "/", "develop">>>>, env.checkout),
        Echo("Merging"),
        CmdNoExit("git merge", <<>>, env.merge = "clean"),
        IF env.merge = "clean" THEN R(<<>>, 0, "no")
        ELSE Then(<<Echo("Merge conflicts detected"),
                   CmdNoExit("read", <<>>, TRUE),
                   CmdNoExit("git merge --continue", <<>>, TRUE),
                   Echo("Conflicts resolved")>>),
        Echo("Pushing integration branch"),
        Cmd("git push -u", <<<<"origin">>, <<"to-develop">>>>, env.push)>>)

\* What follows a created pull request in gk_pr: the mention is chosen
\* with fzf and the notification goes out through gk_slack.
PrNotify(env) ==
  Then(<<Echo("Pull request created"),
        CmdStatus("fzf", <<>>, IF env.fzf = "cancel" THEN 130 ELSE 0),
        Call(gk_slack(1, IF env.fzf = "user" THEN <<"Pull request", " ", "<@user>">>
                         ELSE <<"Pull request">>, env))>>)

gk_pr(fargs, env) ==
  LET base == ParamOr(fargs, 1, <<"release">>)
      title == Param(fargs, 2)
  IN Then(<<Enter("gk_pr"),
           Echo("Start to create pull request"),
           IF base = <<"develop">> THEN PrIntegration(env) ELSE R(<<>>, 0, "no"),
           IF title # <<>> THEN Echo("Create pull request with title")
           ELSE Echo("Create pull request with fill"),
           Cmd("gh pr create", <<base, title>>, env.gh # "fail"),
           IF env.gh = "url" THEN PrNotify(env)
           ELSE R(Echo("Failed to create pull request").log, 1, "return")>>)

gk_prs(fargs, env) ==
  LET remote == ParamOr(fargs, 1, <<"origin">>)
      title == Param(fargs, 2)
      latest_release == LatestRelease(env.releases)
  IN Then(<<Enter("gk_prs"),
           Echo("Start to create pull request"),
           OrReturn1(CmdNoExit("git fetch", <<remote>>, env.fetch)),
           CmdNoExit("git branch -r", <<>>, TRUE),
           IF latest_release = <<>>
           THEN R(Echo("No release branch found").log, 1, "return")
           ELSE Then(<<Echo("Latest release"),
                      Echo("Create pull request with title"),
                      Call(gk_pr(<<<<"release/v">> \o latest_release, title>>, env)),
                      Echo("Pull request created")>>)>>)

\* git fetch && git checkout -b && git push -u, as gk_nb and gk_nbh run it.
BranchSteps(plan, env) ==
  AndList3(CmdNoExit("git fetch", <<plan.remote>>, env.fetch),
           CmdNoExit("git checkout -b", <<plan.branch, plan.start>>, env.checkout),
           CmdNoExit("git push -u", <<plan.remote, plan.branch>>, env.push))

gk_nb(fargs, env) ==
  Then(<<Enter("gk_nb"),
        Echo("Start to create new branch"),
        BranchSteps(NbPlan(fargs), env),
        Echo("New branch created from develop")>>)

NbhPlan(fargs) ==
  [remote |-> ParamOr(fargs, 3, <<"origin">>),
   branch |-> Param(fargs, 1),
   start |-> ParamOr(fargs, 3, <<"origin">>) \o <<"/">> \o ParamOr(fargs, 2, <<"main">>)]

gk_nbh(fargs, env) ==
  Then(<<Enter("gk_nbh"),
        Echo("Start to create new branch"),
        BranchSteps(NbhPlan(fargs), env),
        Echo("New branch hotfix created")>>)

gk_nbs(fargs, env) ==
  LET remote == ParamOr(fargs, 2, <<"origin">>)
      latest_release == LatestRelease(env.releases)
  IN Then(<<Enter("gk_nbs"),
           Echo("Start to create new branch from staging"),
           CmdNoExit("git branch -r", <<>>, TRUE),
           Echo("Latest release"),
           OrReturn1(CmdNoExit("git fetch", <<remote>>, env.fetch)),
           Echo("Fetch remote"),
           Call(gk_nb(<<Param(fargs, 1), <<"release/v">> \o latest_release, remote>>, env)),
           Echo("Branch created from staging")>>)

gk_approve(fargs, env) ==
  LET url == Param(fargs, 1)
  IN Then(<<Enter("gk_approve"),
           Echo("Approving PR"),
           Cmd("gh pr review --approve",
               <<AwkField(url, 7), AwkField(url, 4) \o <<"/">> \o AwkField(url, 5)>>,
               env.review),
           Echo("approved")>>)

gk_wf(fargs, env) ==
  LET url == Param(fargs, 1)
      owner == AwkField(url, 4)
      repo == AwkField(url, 5)
      pr_number == AwkField(url, 7)
  IN Then(<<Enter("gk_wf"),
           IF url = <<>> THEN R(Echo("Usage: gk_wf <github_pr_url>").log, 1, "return")
           ELSE IF owner = <<>> \/ repo = <<>> \/ pr_number = <<>>
           THEN R(Echo("Invalid GitHub PR URL provided").log, 1, "return")
           ELSE Then(<<Echo("Checking workflows"),
                      Cmd("gh api contents/.github/workflows", <<owner, repo>>,
                          env.workflows # "fail"),
                      IF env.workflows = "none"
                      THEN R(Echo("No workflows found").log, 1, "return")
                      ELSE Then(<<CmdStatus("fzf", <<>>, IF env.wfPick = "cancel" THEN 130 ELSE 0),
                                 Echo("Triggering workflow"),
                                 Cmd("gh workflow run", <<owner, repo>>, env.wfRun)>>)>>)>>)

\* A mutant of gk_merge: a failed approval does not stop the merge.
gk_mergeUnconditional(fargs, env) ==
  LET url == Param(fargs, 1)
      pr_number == AwkField(url, 7)
      repo == AwkField(url, 4) \o <<"/">> \o AwkField(url, 5)
  IN Then(<<Enter("gk_merge"),
            Echo("Approving PR"),
            CmdNoExit("gh pr review --approve", <<pr_number, repo>>, env.review),
            Cmd("gh pr merge --merge", <<pr_number, repo>>, env.ghMerge),
            Echo("approved and merged")>>)

gk_merge(fargs, env) ==
  LET url == Param(fargs, 1)
      pr_number == AwkField(url, 7)
      repo == AwkField(url, 4) \o <<"/">> \o AwkField(url, 5)
  IN Then(<<Enter("gk_merge"),
           Echo("Approving PR"),
           Cmd("gh pr review --approve", <<pr_number, repo>>, env.review),
           Cmd("gh pr merge --merge", <<pr_number, repo>>, env.ghMerge),
           Echo("approved and merged"),
           CmdNoExit("gh pr view", <<pr_number, repo>>, TRUE),
           IF env.base # "develop" THEN R(<<>>, 0, "no")
           ELSE Then(<<CmdNoExit("read -n 1", <<>>, TRUE),
                      IF env.reply \in {"y", "Y"}
                      THEN Then(<<Echo("Starting workflow selection"), Call(gk_wf(<<url>>, env))>>)
                      ELSE Echo("Skipping workflow execution")>>)>>)

\* The function the case table selected, called with "$@".
RunOp(op, fargs, env) ==
  CASE op = "gk_prs" -> gk_prs(fargs, env)
    [] op = "gk_pr" -> gk_pr(fargs, env)
    [] op = "gk_slack" -> gk_slack(Len(fargs), IF fargs = <<>> THEN <<>> ELSE fargs[1], env)
    [] op = "gk_nb" -> gk_nb(fargs, env)
    [] op = "gk_nbs" -> gk_nbs(fargs, env)
    [] op = "gk_nbh" -> gk_nbh(fargs, env)
    [] op = "gk_approve" -> gk_approve(fargs, env)
    [] op = "gk_merge" -> gk_merge(fargs, env)
    [] op = "gk_wf" -> gk_wf(fargs, env)

\* A mutant of Script: the sub-command is looked at before the binaries.
ScriptDepsLast(params, env) ==
  LET m == Main(params, {})
  IN IF m.help THEN R(gk_help.log, m.status, "exit")
     ELSE IF env.missing # {} THEN check_deps(env)
     ELSE Call(RunOp(m.op, m.fargs, env))

\* A mutant of Script: help is an error like an unknown command.
ScriptHelpFails(params, env) ==
  LET m == Main(params, env.missing)
  IN IF m.branch = "deps" THEN check_deps(env)
     ELSE IF m.help THEN R(gk_help.log, 1, "exit")
     ELSE Call(RunOp(m.op, m.fargs, env))

\* ./gkit.sh params: main "$@" to the end of the process; st is the exit
\* status.
Script(params, env) ==
  LET m == Main(params, env.missing)
  IN IF m.branch = "deps" THEN check_deps(env)
     ELSE IF m.branch = "empty" THEN Then(<<gk_help, R(<<>>, 0, "exit")>>)
     ELSE IF m.branch = "unknown"
     THEN Then(<<Echo("Error: Unknown command"), gk_help, R(<<>>, 1, "exit")>>)
     ELSE IF m.help THEN gk_help
     ELSE Call(RunOp(m.op, m.fargs, env))

NoRun == R(<<>>, -1, "no")

\* The surroundings in which everything the script calls succeeds.
DefaultEnv ==
  [missing |-> {}, slackToken |-> TRUE, fetch |-> TRUE, checkout |-> TRUE,
   push |-> TRUE, merge |-> "clean", releases |-> {<<1, 9>>, <<1, 10>>},
   gh |-> "url", fzf |-> "user", slack |-> "ok", review |-> TRUE,
   ghMerge |-> TRUE, base |-> "develop", reply |-> "y", workflows |-> "list",
   wfPick |-> "picked", wfRun |-> TRUE]

\* ------------------------------------------------------------ requests
NoResp == [status |-> 0, isError |-> FALSE, json |-> NoJson, text |-> <<>>]

Idle ==
  [kind |-> "none", name |-> <<>>, args |-> undefined, pc |-> "idle",
   tool |-> 0, spawns |-> 0, others |-> 0, command |-> <<>>, gkitArgs |-> <<>>,
   outChunks |-> <<>>, errChunks |-> <<>>, stdout |-> <<>>, stderr |-> <<>>,
   code |-> undefined, result |-> NoJson, resp |-> NoResp, sh |-> NoSh,
   stdin |-> "none", child |-> "none", env |-> DefaultEnv, run |-> NoRun,
   calls |-> 0, resolves |-> 0, rejects |-> 0]

\* No handler keeps state between requests, so a slot serves one request.
Free(s) == reqs[s].pc = "idle"

\* Whether one of the arguments is a string with a NUL character in it.
HasNul(args) ==
  \E i \in DOMAIN args :
    args[i][1] = "string" /\ \E k \in DOMAIN args[i][2] : args[i][2][k] = "\\0"

NulMessage == <<"The argument 'args' must be a string without null bytes">>

\* executeGkit when spawn throws inside the promise's executor (Node 18.13
\* and later refuse an argument with a NUL character): no child, and the
\* promise is rejected. The MCP handler's catch turns the rejection into an
\* error result; the HTTP handler awaits without a catch and sends nothing.
SpawnThrows(r, command, args) ==
  [r EXCEPT !.calls = @ + 1, !.rejects = @ + 1, !.command = command, !.gkitArgs = args,
            !.pc = IF r.kind = "mcp" THEN "done" ELSE "rejected",
            !.resp = IF r.kind = "mcp"
                     THEN [NoResp EXCEPT !.isError = TRUE, !.text = <<"Error: ">> \o NulMessage]
                     ELSE NoResp]

\* executeGkit(command, args) up to the return of the pending promise.
\* The child's standard input is a pipe (stdio: ['pipe', ...]) whose write end
\* the parent keeps and never ends.
Spawned(r, command, args) ==
  IF HasNul(args) THEN SpawnThrows(r, command, args)
  ELSE [r EXCEPT !.pc = "awaiting", !.calls = @ + 1, !.spawns = @ + 1,
                 !.command = command, !.gkitArgs = args,
                 !.stdin = "pipe", !.child = "running"]

Answered(r, resp) == [r EXCEPT !.pc = "done", !.resp = resp]

\* The POST handler of a route, up to its await; a path without a route is
\* answered by express with 404.
HttpPost(s, path, body) ==
  /\ Free(s)
  /\ LET r == [Idle EXCEPT !.kind = "http", !.name = path, !.args = body,
                           !.tool = RouteOf(path)]
         tool == GkitCommands[r.tool]
         miss == MissingRequired(tool, body)
     IN reqs' = [reqs EXCEPT ![s] =
          IF r.tool = 0
          THEN Answered(r, [NoResp EXCEPT !.status = 404])
          ELSE IF miss # 0
          THEN Answered(r, [NoResp EXCEPT !.status = 400,
                 !.json = [NoJson EXCEPT !.keys = {"success", "error"},
                             !.error = RequiredMessage(tool.required[miss])]])
          ELSE Spawned(r, MapLookup(tool.name)[2], HttpArgs(tool, body))]
  /\ UNCHANGED srv

McpError(message) == [NoResp EXCEPT !.isError = TRUE, !.text = <<"Error: ">> \o message]
McpText(text) == [NoResp EXCEPT !.text = text]

TypeErrorMessage == <<"Cannot read properties of undefined">>

\* The CallTool handler for a name the command map knows, up to its await,
\* and for a name no branch handles.
McpCallTool(s, name, args) ==
  /\ Free(s)
  /\ name \notin AdvancedNames
  /\ LET r == [Idle EXCEPT !.kind = "mcp", !.name = name, !.args = args,
                           !.tool = FindTool(name)]
     IN reqs' = [reqs EXCEPT ![s] =
          IF InvalidArguments(args)
          THEN Answered(r, McpError(<<"Invalid arguments provided">>))
          ELSE IF Truthy(MapLookup(name))
          THEN IF r.tool = 0
               THEN Answered(r, McpError(TypeErrorMessage))
               ELSE Spawned(r, MapLookup(name)[2], McpArgs(GkitCommands[r.tool], args))
          ELSE Answered(r, McpError(<<"Unknown tool: ">> \o name))]
  /\ UNCHANGED srv

\* The CallTool handler for review_code, commit and rv_pr; `ok` is the
\* outcome of the URL parse and of curl, which is the environment's.
McpAdvanced(s, name, args, ok) ==
  /\ Free(s)
  /\ name \in AdvancedNames
  /\ LET r == [Idle EXCEPT !.kind = "mcp", !.name = name, !.args = args]
         diff == GetProp(args, "diff")
         url == GetProp(args, "pr_url")
     IN reqs' = [reqs EXCEPT ![s] =
          IF InvalidArguments(args)
          THEN Answered(r, McpError(<<"Invalid arguments provided">>))
          ELSE IF name = Name2("review", "code")
          THEN IF diff[1] = "string" THEN Answered(r, McpText(<<"{review}">>))
               ELSE Answered(r, McpError(TypeErrorMessage))
          ELSE IF name = <<"commit">>
          THEN IF diff[1] = "string"
               THEN Answered([r EXCEPT !.others = 1], McpText(<<"Suggested commit and result:">>))
               ELSE Answered(r, McpError(TypeErrorMessage))
          ELSE IF Truthy(diff) THEN Answered(r, McpText(<<"REVIEW:">>))
          ELSE IF Truthy(url)
          THEN IF ok THEN Answered([r EXCEPT !.others = 1], McpText(<<"REVIEW:">>))
               ELSE Answered(r, McpError(<<"fetchPrDiff error: ">>))
          ELSE Answered(r, McpError(<<"Provide either \"diff\" or \"pr_url\"">>))]
  /\ UNCHANGED srv

\* A mutant of ChildStdout: the buffer is one variable of the module, so a
\* chunk lands in the output of every call in flight.
ChildStdoutShared(s, data) ==
  /\ reqs[s].pc = "awaiting"
  /\ reqs[s].child = "running"
  /\ Len(reqs[s].outChunks) < MaxChunks
  /\ reqs' = [t \in DOMAIN reqs |->
       IF t = s THEN [reqs[t] EXCEPT !.stdout = @ \o data, !.outChunks = Append(@, data)]
       ELSE IF reqs[t].pc = "awaiting" THEN [reqs[t] EXCEPT !.stdout = @ \o data]
       ELSE reqs[t]]
  /\ UNCHANGED srv

\* child.stdout.on('data'): stdout += data.toString()
ChildStdout(s, data) ==
  /\ reqs[s].pc = "awaiting"
  /\ reqs[s].child = "running"
  /\ Len(reqs[s].outChunks) < MaxChunks
  /\ reqs' = [reqs EXCEPT ![s].stdout = @ \o data, ![s].outChunks = Append(@, data)]
  /\ UNCHANGED srv

\* child.stderr.on('data'): stderr += data.toString()
ChildStderr(s, data) ==
  /\ reqs[s].pc = "awaiting"
  /\ reqs[s].child = "running"
  /\ Len(reqs[s].errChunks) < MaxChunks
  /\ reqs' = [reqs EXCEPT ![s].stderr = @ \o data, ![s].errChunks = Append(@, data)]
  /\ UNCHANGED srv

\* A mutant of HttpAnswer: a failed command is answered with status 500.
HttpAnswerByStatus(result) ==
  [NoResp EXCEPT !.status = IF result.success THEN 200 ELSE 500, !.json = result]

\* res.json(result)
HttpAnswer(result) == [NoResp EXCEPT !.status = 200, !.json = result]

\* A mutant of McpAnswer: a failure is reported without the error flag.
McpAnswerNoFlag(result) ==
  IF ~result.success
  THEN McpText(<<"Error: ">> \o (IF result.error # <<>> THEN result.error ELSE result.output))
  ELSE McpText(result.output)

\* A mutant of McpAnswer: the failure text is always the captured output.
McpAnswerOutput(result) ==
  IF ~result.success THEN McpError(result.output) ELSE McpText(result.output)

\* if (!result.success) throw new Error(result.error || result.output), the
\* catch clause, and the return of result.output.
McpAnswer(result) ==
  IF ~result.success
  THEN McpError(IF result.error # <<>> THEN result.error ELSE result.output)
  ELSE McpText(result.output)

\* child.on('close'): the promise resolves and the awaiting handler answers.
\* The child exits only while it runs: one blocked in a read stays.
ChildClose(s, code) ==
  /\ reqs[s].pc = "awaiting"
  /\ reqs[s].child = "running"
  /\ LET result == ExecResult(reqs[s].stdout, reqs[s].stderr, code)
     IN reqs' = [reqs EXCEPT ![s] =
          [@ EXCEPT !.pc = "done", !.code = code, !.result = result,
                    !.child = "exited", !.resolves = @ + 1,
                    !.resp = IF reqs[s].kind = "http" THEN HttpAnswer(result)
                             ELSE McpAnswer(result)]]
  /\ UNCHANGED srv

\* Whether the dispatched function can come to read a reply from standard
\* input: gk_merge asks whether to run a workflow, gk_pr waits for Enter
\* while its merge into the develop integration branch has conflicts.
ReadsStdin(m) ==
  \/ m.op = "gk_merge"
  \/ m.op = "gk_pr" /\ ParamOr(m.fargs, 1, <<"release">>) = <<"develop">>

\* The child reaches a `read`: with standard input a pipe nobody writes to or
\* ends it blocks; with nothing there it would see the end of input and go on.
ChildRead(s) ==
  /\ reqs[s].pc = "awaiting"
  /\ reqs[s].child = "running"
  /\ ReadsStdin(Main(ChildParams(reqs[s].command, reqs[s].gkitArgs), {}))
  /\ reqs' = [reqs EXCEPT ![s].child =
                IF reqs[s].stdin = "pipe" THEN "blocked" ELSE "running"]
  /\ UNCHANGED srv

\* gkit.sh run from a terminal with the given parameters in the given
\* surroundings, to the end of the process.
Cli(s, params, env) ==
  /\ Free(s)
  /\ reqs' = [reqs EXCEPT ![s] =
       [Idle EXCEPT !.kind = "cli", !.pc = "done", !.gkitArgs = params,
                    !.sh = Main(params, env.missing), !.env = env,
                    !.run = Script(params, env)]]
  /\ UNCHANGED srv

\* ------------------------------------------------------------ inputs
Slots == {"r1"}

Values ==
  {Str(<<>>), Str(<<"feature-x">>), Str(<<"upstream">>), Num(7), null,
   Str(<<"my", " ", "fix">>), Str(<<"x", ";", "reboot">>)}

Range(f) == {f[i] : i \in DOMAIN f}

\* The key sequences of a JSON body over the declared parameters.
KeySeqs(props) ==
  UNION {{ks \in [1..n -> Range(props)] : \A i, j \in 1..n : ks[i] = ks[j] => i = j}
         : n \in 0..Len(props)}

Bodies(props) ==
  UNION {{Obj([i \in DOMAIN ks |-> <<ks[i], vs[i]>>]) : vs \in [DOMAIN ks -> Values]}
         : ks \in KeySeqs(props)}

NoRoutePaths ==
  {<<"/api/">> \o n : n \in ToolNames} \cup {<<"/api/", "nope">>, <<"/health">>}

UnknownNames == {<<"nope">>, <<"toString">>, <<"pr">>}

NotObjects == {undefined, null, Str(<<"feature-x">>)}

AdvancedArgs ==
  {Obj(<<>>), Obj(<< <<"diff", Str(<<"+x">>)>> >>), Obj(<< <<"pr_url", Str(<<"u">>)>> >>)}

CodeChunks == {<<"ok">>}
Codes == {Num(0), Num(1), null}

Words == {<<>>, <<"feature-x">>, <<"upstream">>}
Tokens == DOMAIN CaseTable \cup {<<>>, <<"zz">>, Name2("create", "pr")}
CliParams ==
  {<<>>} \cup {<<t>> \o ws : t \in Tokens,
               ws \in UNION {[1..n -> Words] : n \in 0..3}}
MissingSets == {{}, {"gh"}, {"fzf", "jq"}}

\* https://github.com/o/r/pull/5
PrUrl == <<"https:", "/", "/", "github.com", "/", "o", "/", "r", "/", "pull", "/", "5">>

\* ------------------------------------------------------------ specification
Init ==
  /\ reqs = [s \in Slots |-> Idle]
  /\ srv = Startup(ToolToGkitCommandMap)

\* A POST to the endpoint of a registered command.
PostCommand ==
  \E s \in DOMAIN reqs :
    /\ Free(s)
    /\ \E i \in DOMAIN GkitCommands : \E b \in Bodies(GkitCommands[i].properties) :
         HttpPost(s, Endpoint(GkitCommands[i].name), b)

\* A POST to a path no route was registered for.
PostElsewhere ==
  \E s \in DOMAIN reqs :
    /\ Free(s)
    /\ \E p \in NoRoutePaths : HttpPost(s, p, Obj(<<>>))

\* A tools/call of a registry command with an argument object.
CallCommand ==
  \E s \in DOMAIN reqs :
    /\ Free(s)
    /\ \E i \in DOMAIN GkitCommands : \E b \in Bodies(GkitCommands[i].properties) :
         McpCallTool(s, GkitCommands[i].name, b)

\* A tools/call of an unknown name, or with arguments that are no object.
CallOther ==
  \E s \in DOMAIN reqs :
    /\ Free(s)
    /\ \E n \in ToolNames \cup UnknownNames : \E a \in NotObjects \cup {Obj(<<>>)} :
         /\ n \in ToolNames => a \in NotObjects
         /\ McpCallTool(s, n, a)

CallAdvanced ==
  \E s \in DOMAIN reqs :
    /\ Free(s)
    /\ \E n \in AdvancedNames : \E a \in AdvancedArgs \cup NotObjects :
         \E ok \in BOOLEAN : McpAdvanced(s, n, a, ok)

StdoutData == \E s \in DOMAIN reqs : \E d \in CodeChunks : ChildStdout(s, d)
StderrData == \E s \in DOMAIN reqs : \E d \in CodeChunks : ChildStderr(s, d)
Close == \E s \in DOMAIN reqs : \E c \in Codes : ChildClose(s, c)

RunCli ==
  \E s \in DOMAIN reqs :
    /\ Free(s)
    /\ \E ps \in CliParams : \E m \in MissingSets :
         Cli(s, ps, [DefaultEnv EXCEPT !.missing = m])

Next ==
  \/ PostCommand
  \/ PostElsewhere
  \/ CallCommand
  \/ CallOther
  \/ CallAdvanced
  \/ StdoutData
  \/ StderrData
  \/ Close
  \/ RunCli

Spec == Init /\ [][Next]_vars


\* ------------------------------------------------------------ the invoker
\* The same handlers with few requests and children that write text with
\* whitespace at the edges and inside.
InvokeRequests ==
  {<<Name2("approve", "pr"), Obj(<< <<"pr_url", Str(PrUrl)>> >>)>>,
   <<Name2("create", "pr"), Obj(<<>>)>>,
   <<Name2("merge", "pr"), Obj(<< <<"pr_url", Str(PrUrl)>> >>)>>}

TextChunks ==
  {<<" ">>, <<"PR", " ", "created">>, <<"\n", "x">>,
   <<"not", " ", "a", " ", "git", " ", "repository", "\n">>}

PostInvoke ==
  \E s \in DOMAIN reqs :
    /\ Free(s)
    /\ \E rq \in InvokeRequests : HttpPost(s, Endpoint(rq[1]), rq[2])

CallInvoke ==
  \E s \in DOMAIN reqs :
    /\ Free(s)
    /\ \E rq \in InvokeRequests : McpCallTool(s, rq[1], rq[2])

StdoutText == \E s \in DOMAIN reqs : \E d \in TextChunks : ChildStdout(s, d)
StderrText == \E s \in DOMAIN reqs : \E d \in TextChunks : ChildStderr(s, d)

Read == \E s \in DOMAIN reqs : ChildRead(s)

NextInvoke ==
  \/ PostInvoke
  \/ CallInvoke
  \/ StdoutText
  \/ StderrText
  \/ Read
  \/ Close

SpecInvoke == Init /\ [][NextInvoke]_vars


\* ------------------------------------------------------------ terminal runs
\* gkit.sh run from a terminal in surroundings where the commands it calls
\* succeed or fail independently.
ReleaseSets == {{}, {<<1, 9>>, <<1, 10>>}, {<<1, 10>>, <<2, 0>>, <<1, 2>>}}

BranchParams ==
  {<<t>> \o ws : t \in {<<"nb">>, <<"nbh">>, <<"nbs">>},
                 ws \in UNION {[1..n -> Words] : n \in 0..3}}

BranchEnvs ==
  {[DefaultEnv EXCEPT !.fetch = f, !.checkout = c, !.push = p, !.releases = rs]
     : f \in BOOLEAN, c \in BOOLEAN, p \in BOOLEAN, rs \in ReleaseSets}

PrParams ==
  {<<<<"pr">>>>, <<<<"prs">>>>, <<<<"prs">>, <<"origin">>, <<"fix">>>>,
   <<<<"sl">>>>, <<<<"sl">>, <<"hello">>>>}
  \cup {<<<<"pr">>, b>> : b \in {<<"develop">>, <<"main">>, <<>>}}
  \cup {<<<<"pr">>, b, <<"fix">>>> : b \in {<<"develop">>, <<"main">>, <<>>}}

PrEnvs ==
  {[DefaultEnv EXCEPT !.slackToken = t, !.fetch = f, !.checkout = c, !.push = p,
                      !.merge = m, !.gh = g, !.fzf = z, !.slack = k, !.releases = rs]
     : t \in BOOLEAN, f \in BOOLEAN, c \in BOOLEAN, p \in BOOLEAN,
       m \in {"clean", "conflict"}, g \in {"url", "fail", "empty"},
       z \in {"user", "none", "cancel"}, k \in {"ok", "notok", "curlfail"},
       rs \in ReleaseSets}

MergeParams ==
  {<<t>> \o us : t \in {<<"ap">>, <<"approve">>, <<"mg">>, <<"merge">>, <<"wf">>},
                 us \in {<<>>, <<PrUrl>>, <<<<"github.com", "/", "o">>>>}}

MergeEnvs ==
  {[DefaultEnv EXCEPT !.review = v, !.ghMerge = g, !.base = b, !.reply = y,
                      !.workflows = w, !.wfPick = k, !.wfRun = u]
     : v \in BOOLEAN, g \in BOOLEAN, b \in {"develop", "main", ""},
       y \in {"y", "Y", "n"}, w \in {"list", "none", "fail"},
       k \in {"picked", "cancel"}, u \in BOOLEAN}

RunBranch ==
  \E s \in DOMAIN reqs :
    /\ Free(s)
    /\ \E ps \in BranchParams : \E env \in BranchEnvs : Cli(s, ps, env)

RunPr ==
  \E s \in DOMAIN reqs :
    /\ Free(s)
    /\ \E ps \in PrParams : \E env \in PrEnvs : Cli(s, ps, env)

RunMerge ==
  \E s \in DOMAIN reqs :
    /\ Free(s)
    /\ \E ps \in MergeParams : \E env \in MergeEnvs : Cli(s, ps, env)

RunAny ==
  \E s \in DOMAIN reqs :
    /\ Free(s)
    /\ \E ps \in CliParams : \E m \in SUBSET RequiredBinaries :
         Cli(s, ps, [DefaultEnv EXCEPT !.missing = m])

NextShell ==
  \/ RunBranch
  \/ RunPr
  \/ RunMerge
  \/ RunAny

SpecShell == Init /\ [][NextShell]_vars

\* ------------------------------------------------------------ calls in flight
\* Two requests served at the same time; each child writes chunks that name
\* its own slot, so a chunk in the wrong result shows.
PairSlots == {"a", "b"}

PairRequests ==
  {<<Name2("merge", "pr"), Obj(<< <<"pr_url", Str(PrUrl)>> >>)>>,
   <<Name2("create", "branch"), Obj(<< <<"branch", Str(<<"x", "\\0", "y">>)>> >>)>>}

PairOut(s) == <<"out", " ", s, "\n">>
PairErr(s) == <<"err", " ", s, "\n">>

InitPair ==
  /\ reqs = [s \in PairSlots |-> Idle]
  /\ srv = Startup(ToolToGkitCommandMap)

PostPair ==
  \E s \in DOMAIN reqs :
    /\ Free(s)
    /\ \E rq \in PairRequests : HttpPost(s, Endpoint(rq[1]), rq[2])

CallPair ==
  \E s \in DOMAIN reqs :
    /\ Free(s)
    /\ \E rq \in PairRequests : McpCallTool(s, rq[1], rq[2])

StdoutPair == \E s \in DOMAIN reqs : ChildStdout(s, PairOut(s))
StderrPair == \E s \in DOMAIN reqs : ChildStderr(s, PairErr(s))

NextPair ==
  \/ PostPair
  \/ CallPair
  \/ StdoutPair
  \/ StderrPair
  \/ Read
  \/ Close

SpecPair == InitPair /\ [][NextPair]_vars

\* ------------------------------------------------------------ edited registries
\* The servers started on a registry in which one entry of GkitCommands has
\* no mapping (the shipped ToolToGkitCommandMap has one for each), and on the
\* shipped one.
Without(names) == [n \in DOMAIN ToolToGkitCommandMap \ names |-> ToolToGkitCommandMap[n]]

Configs == {Without({}), Without({Name2("create", "pr")}), Without({Name2("approve", "pr")})}

InitConfig ==
  /\ reqs = [s \in Slots |-> Idle]
  /\ \E map \in Configs : srv = Startup(map)

SpecConfig == InitConfig /\ [][NextInvoke]_vars

\* ------------------------------------------------------------ claims
\* A request of an adapter that marshals, for a command of the registry,
\* carrying an argument object.
Marshals(r) ==
  /\ r.kind \in {"http", "mcp"}
  /\ r.tool # 0
  /\ r.args[1] = "object"

Props(r) == GkitCommands[r.tool].properties
Required(r) == Range(GkitCommands[r.tool].required)
Optional(r) == Range(Props(r)) \ Required(r)
Has(r, param) == GetProp(r.args, param) # undefined
NonEmpty(r, param) ==
  GetProp(r.args, param)[1] = "string" /\ GetProp(r.args, param)[2] # <<>>

\* Whether text t has the symbol x in it.
Mentions(t, x) == \E i \in DOMAIN t : t[i] = x

\* The position a supplied parameter gets: the number of supplied
\* parameters declared up to it.
Rank(r, i) == Cardinality({j \in 1..i : Has(r, Props(r)[j])})

\* C1: in the HTTP route and in the MCP handler alike, a request that lacks
\* a required parameter is rejected with a message naming that parameter,
\* and executeGkit is not called.
C1_MissingRequiredRejected ==
  \A s \in DOMAIN reqs :
    LET r == reqs[s] IN
    (Marshals(r) /\ \E p \in Required(r) : ~Has(r, p)) =>
       /\ r.pc = "done"
       /\ r.spawns = 0
       /\ r.gkitArgs = <<>>
       /\ \E p \in Required(r) :
            /\ ~Has(r, p)
            /\ IF r.kind = "http" THEN Mentions(r.resp.json.error, p)
               ELSE r.resp.isError /\ Mentions(r.resp.text, p)

\* C2: when every declared parameter has a non-empty value, the argument
\* sequence has one element per declared parameter, the i-th being the value
\* of the i-th declared parameter, whatever the key order of the map.
C2_FullMapInDeclarationOrder ==
  \A s \in DOMAIN reqs :
    LET r == reqs[s] IN
    (Marshals(r) /\ \A i \in DOMAIN Props(r) : NonEmpty(r, Props(r)[i])) =>
       /\ r.spawns = 1
       /\ Len(r.gkitArgs) = Len(Props(r))
       /\ \A i \in DOMAIN Props(r) : r.gkitArgs[i] = GetProp(r.args, Props(r)[i])

\* The keys of the map come in an order that is not the declared one.
KeysOutOfOrder(r) ==
  \E i, j \in DOMAIN r.args[2] : \E a, b \in DOMAIN Props(r) :
    /\ i < j /\ b < a
    /\ r.args[2][i][1] = Props(r)[a]
    /\ r.args[2][j][1] = Props(r)[b]

C2_Witness ==
  \E s \in DOMAIN reqs :
    LET r == reqs[s] IN
    /\ Marshals(r) /\ r.kind = "http" /\ r.spawns = 1
    /\ Len(Props(r)) = 3
    /\ \A i \in DOMAIN Props(r) : NonEmpty(r, Props(r)[i])
    /\ KeysOutOfOrder(r)
    /\ r.gkitArgs[1] # r.gkitArgs[3]

\* C3 as the specification states it: an empty string counts as absent, so
\* no argument is the empty string and an empty required value is rejected
\* before a process is spawned.
C3_EmptyStringIsAbsent ==
  \A s \in DOMAIN reqs :
    LET r == reqs[s] IN
    Marshals(r) =>
       /\ \A k \in DOMAIN r.gkitArgs : r.gkitArgs[k] # Str(<<>>)
       /\ (\E p \in Required(r) : GetProp(r.args, p) = Str(<<>>)) => r.spawns = 0

\* C3 as the code has it: only an absent parameter is skipped.  Once every
\* required parameter is present, the empty string included, the command is
\* invoked with the value of each supplied parameter, the empty string
\* included, at the position its rank among the supplied ones gives it.
C3_EmptyStringIsAValue ==
  \A s \in DOMAIN reqs :
    LET r == reqs[s] IN
    (Marshals(r) /\ \A p \in Required(r) : Has(r, p)) =>
       /\ r.spawns = 1
       /\ Len(r.gkitArgs) = Rank(r, Len(Props(r)))
       /\ \A i \in DOMAIN Props(r) :
            Has(r, Props(r)[i]) => r.gkitArgs[Rank(r, i)] = GetProp(r.args, Props(r)[i])

C3_Witness ==
  \E s \in DOMAIN reqs :
    LET r == reqs[s] IN
    /\ Marshals(r) /\ r.kind = "http" /\ r.spawns = 1
    /\ \E p \in Required(r) : GetProp(r.args, p) = Str(<<>>)
    /\ \E p \in Optional(r) : GetProp(r.args, p) = Str(<<>>)
    /\ \E k \in DOMAIN r.gkitArgs : r.gkitArgs[k] = Str(<<>>)

\* C4: with the required parameters present, an omitted optional parameter p
\* and a supplied later optional parameter q, the sequence is shorter than
\* the declaration, the value of q sits at the position declared for p, and
\* the supplied values keep their declared order.
C4_PositionsCompress ==
  \A s \in DOMAIN reqs :
    LET r == reqs[s] IN
    Marshals(r) /\ (\A p \in Required(r) : Has(r, p)) =>
      \A ip, iq \in DOMAIN Props(r) :
        (/\ ip < iq
         /\ {Props(r)[ip], Props(r)[iq]} \subseteq Optional(r)
         /\ ~Has(r, Props(r)[ip])
         /\ Has(r, Props(r)[iq])) =>
           /\ r.spawns = 1
           /\ Len(r.gkitArgs) < Len(Props(r))
           /\ r.gkitArgs[ip] = GetProp(r.args, Props(r)[iq])
           /\ \A k \in DOMAIN r.gkitArgs : r.gkitArgs[k] # undefined
           /\ \A a, b \in DOMAIN Props(r) :
                (a < b /\ Has(r, Props(r)[a]) /\ Has(r, Props(r)[b])) =>
                   Rank(r, a) < Rank(r, b)

C4_Witness ==
  \E s \in DOMAIN reqs :
    LET r == reqs[s] IN
    /\ Marshals(r) /\ r.kind = "mcp" /\ r.spawns = 1
    /\ GkitCommands[r.tool].name = Name2("create", "branch")
    /\ Has(r, "branch") /\ ~Has(r, "from") /\ NonEmpty(r, "remote")
    /\ r.gkitArgs = <<GetProp(r.args, "branch"), GetProp(r.args, "remote")>>


\* C5: the marshaler substitutes no default: every argument is a value of
\* the request; create_branch with {branch: "feature-x"} is marshaled to
\* ["feature-x"], and it is gk_nb that falls back to develop and origin when
\* its second and third parameters are unset, while a value given there is
\* used as it is.
C5_NoDefaultSubstituted ==
  \A s \in DOMAIN reqs :
    LET r == reqs[s]
        sh == Main(ChildParams(r.command, r.gkitArgs), {})
    IN
    /\ (Marshals(r) /\ r.spawns = 1) =>
          \A k \in DOMAIN r.gkitArgs :
            \E i \in DOMAIN Props(r) :
              Has(r, Props(r)[i]) /\ r.gkitArgs[k] = GetProp(r.args, Props(r)[i])
    /\ (/\ Marshals(r)
        /\ GkitCommands[r.tool].name = Name2("create", "branch")
        /\ r.args = Obj(<< <<"branch", Str(<<"feature-x">>)>> >>)) =>
          /\ r.spawns = 1
          /\ r.gkitArgs = <<Str(<<"feature-x">>)>>
          /\ sh.op = "gk_nb"
          /\ sh.fargs = << <<"feature-x">> >>
          /\ NbPlan(sh.fargs) = [remote |-> <<"origin">>, branch |-> <<"feature-x">>,
                                 start |-> <<"origin", "/", "develop">>]
    /\ (r.kind = "cli" /\ r.sh.op = "gk_nb") =>
          LET a == r.sh.fargs
              given(i) == i <= Len(a) /\ a[i] # <<>>
          IN /\ NbPlan(a).remote =
                  IF given(3) THEN a[3] ELSE <<"origin">>
             /\ Len(a) < 3 => NbPlan(a).remote = <<"origin">>
             /\ Len(a) < 2 => NbPlan(a).start = NbPlan(a).remote \o <<"/", "develop">>
             /\ given(2) => NbPlan(a).start = NbPlan(a).remote \o <<"/">> \o a[2]

C5_Witness ==
  \E s \in DOMAIN reqs :
    LET r == reqs[s] IN
    /\ Marshals(r) /\ r.kind = "http" /\ r.pc = "awaiting"
    /\ GkitCommands[r.tool].name = Name2("create", "branch")
    /\ r.args = Obj(<< <<"branch", Str(<<"feature-x">>)>> >>)
    /\ r.gkitArgs = <<Str(<<"feature-x">>)>>
    /\ Main(ChildParams(r.command, r.gkitArgs), {}).op = "gk_nb"

C7_Http400OnMissingRequired ==
  \A s \in DOMAIN reqs :
    LET r == reqs[s] IN
    (r.kind = "http" /\ Marshals(r) /\ \E p \in Required(r) : ~Has(r, p)) =>
       /\ r.pc = "done"
       /\ r.resp.status = 400
       /\ r.resp.json.keys = {"success", "error"}
       /\ r.resp.json.success = FALSE
       /\ \E p \in Required(r) :
            ~Has(r, p) /\ r.resp.json.error = <<"Parameter '", p, "' is required">>
       /\ r.spawns = 0 /\ r.gkitArgs = <<>>

C7_Witness ==
  \E s \in DOMAIN reqs :
    LET r == reqs[s] IN
    /\ r.kind = "http" /\ r.name = <<"/api/", "approve", "-", "pr">>
    /\ r.args = Obj(<<>>)
    /\ r.resp.status = 400 /\ Mentions(r.resp.json.error, "pr_url")
    /\ r.spawns = 0


\* o is t without its leading and trailing whitespace.
IsTrimOf(o, t) ==
  /\ o # <<>> => (o[1] \notin Whitespace /\ o[Len(o)] \notin Whitespace)
  /\ \E i \in 0..Len(t) : \E j \in i..Len(t) :
       /\ SubSeq(t, i + 1, j) = o
       /\ \A k \in (1..i) \cup ((j + 1)..Len(t)) : t[k] \in Whitespace

IsSuffix(x, t) == Len(x) <= Len(t) /\ SubSeq(t, Len(t) - Len(x) + 1, Len(t)) = x

\* C8: the result of executeGkit is decided by the child's exit and its
\* streams: success exactly when the exit code is 0, output the trimmed
\* concatenation of the stdout chunks in arrival order, error the trimmed
\* concatenation of the stderr chunks, empty when stderr stayed silent.
C8_ResultFromExitAndStreams ==
  \A s \in DOMAIN reqs :
    LET r == reqs[s] IN
    (r.spawns = 1 /\ r.pc = "done") =>
       /\ r.result.keys = {"success", "output", "error"}
       /\ r.result.success <=> (r.code = Num(0))
       /\ IsTrimOf(r.result.output, Concat(r.outChunks))
       /\ IsTrimOf(r.result.error, Concat(r.errChunks))
       /\ r.errChunks = <<>> => r.result.error = <<>>

C8_Witness ==
  \E s \in DOMAIN reqs :
    LET r == reqs[s] IN
    /\ r.spawns = 1 /\ r.pc = "done" /\ r.code = Num(0)
    /\ r.outChunks = << <<"PR", " ", "created">>, <<"\n", "x">> >>
    /\ r.errChunks = << <<" ">> >>
    /\ r.result = [keys |-> {"success", "output", "error"}, success |-> TRUE,
                   output |-> <<"PR", " ", "created", "\n", "x">>, error |-> <<>>]

\* C9: a POST that passed the required-parameter check is answered 200 with
\* the result of executeGkit as its body, whether the command succeeded or
\* failed.
C9_Http200WithResult ==
  \A s \in DOMAIN reqs :
    LET r == reqs[s] IN
    (/\ r.kind = "http" /\ Marshals(r) /\ r.pc = "done"
     /\ \A p \in Required(r) : Has(r, p)) =>
       /\ r.spawns = 1
       /\ r.resp.status = 200
       /\ r.resp.json = r.result
       /\ r.resp.json.keys = {"success", "output", "error"}
       /\ r.resp.json.success <=> (r.code = Num(0))
       /\ IsTrimOf(r.resp.json.error, Concat(r.errChunks))

C9_Witness ==
  \E s \in DOMAIN reqs :
    LET r == reqs[s] IN
    /\ r.kind = "http" /\ r.pc = "done" /\ r.code = Num(1)
    /\ r.errChunks = << <<"not", " ", "a", " ", "git", " ", "repository", "\n">> >>
    /\ r.resp.status = 200
    /\ r.resp.json.success = FALSE
    /\ r.resp.json.error = <<"not", " ", "a", " ", "git", " ", "repository">>

\* C10: in the MCP handler an exit other than 0 gives an error result whose
\* text carries the captured standard error (the text is "Error: " and the
\* captured standard error, or the captured output when standard error is
\* empty); exit 0 gives a result without the error flag whose text is the
\* captured output.
C10_McpFailureCarriesStderr ==
  \A s \in DOMAIN reqs :
    LET r == reqs[s] IN
    (r.kind = "mcp" /\ r.spawns = 1 /\ r.pc = "done") =>
       /\ r.code # Num(0) =>
            /\ r.resp.isError
            /\ IsSuffix(r.result.error, r.resp.text)
            /\ IsTrimOf(r.result.error, Concat(r.errChunks))
            /\ r.result.error # <<>> => r.resp.text = <<"Error: ">> \o r.result.error
            /\ r.result.error = <<>> => r.resp.text = <<"Error: ">> \o r.result.output
       /\ r.code = Num(0) =>
            /\ ~r.resp.isError
            /\ r.resp.text = r.result.output
            /\ IsTrimOf(r.resp.text, Concat(r.outChunks))

C10_Witness ==
  \E s \in DOMAIN reqs :
    LET r == reqs[s] IN
    /\ r.kind = "mcp" /\ r.pc = "done" /\ r.code = Num(1)
    /\ r.outChunks = << <<"PR", " ", "created">> >>
    /\ r.errChunks = << <<"\n", "x">>, <<" ">> >>
    /\ r.resp.isError
    /\ r.resp.text = <<"Error: ", "x">>

\* C11: the argument sequence executeGkit is given reaches the dispatched
\* function unchanged: for marshaled strings a1..an, spaces and shell
\* metacharacters included, the gk_ function sees n parameters with $i = ai.
Dispatched(r) == Main(ChildParams(r.command, r.gkitArgs), {})
AllStrings(vs) == \A i \in DOMAIN vs : vs[i][1] = "string"
C11_ArgumentsReachFunctionUnchanged ==
  \A s \in DOMAIN reqs :
    (reqs[s].spawns = 1 /\ AllStrings(reqs[s].gkitArgs))
      => /\ Dispatched(reqs[s]).op # "none"
         /\ Dispatched(reqs[s]).fargs = [i \in DOMAIN reqs[s].gkitArgs |-> reqs[s].gkitArgs[i][2]]

\* C12: the MCP tool-call handler checks that every supplied value is a
\* string before marshaling: a call with a number, an object or null for a
\* declared parameter is rejected and no subprocess is spawned.
C12_McpRejectsNonStringValue ==
  \A s \in DOMAIN reqs :
    LET r == reqs[s] IN
    (r.kind = "mcp" /\ Marshals(r)
       /\ \E p \in Range(Props(r)) : Has(r, p) /\ GetProp(r.args, p)[1] # "string")
      => /\ r.pc = "done"
         /\ r.resp.isError
         /\ r.spawns = 0

\* What a terminal run did.
Ran(r, cmd) == \E i \in DOMAIN r.run.log : r.run.log[i].cmd = cmd
Echoed(r, t) == \E i \in DOMAIN r.run.log : r.run.log[i] = Entry("echo", <<<<t>>>>)
Called(r) == {r.run.log[i].args[1][1] : i \in {j \in DOMAIN r.run.log : r.run.log[j].cmd = "call"}}

\* C13: once gh pr create has returned a URL, `pr` exits with status 0
\* however the Slack step ends: Slack answering ok:false, SLACK_TOKEN unset,
\* or the mention selection cancelled.
C13_PrSucceedsWhateverSlackDoes ==
  \A s \in DOMAIN reqs :
    LET r == reqs[s] IN
    (r.kind = "cli" /\ r.sh.op = "gk_pr" /\ Ran(r, "gh pr create") /\ r.env.gh = "url")
      => r.run.st = 0

\* C14: nb and nbh print their success line and exit 0 only if git fetch,
\* git checkout -b and git push all succeeded; if one of them fails the exit
\* status is non-zero.
C14_BranchFailureNotSilent ==
  \A s \in DOMAIN reqs :
    LET r == reqs[s]
        allOk == r.env.fetch /\ r.env.checkout /\ r.env.push
        success == Echoed(r, "New branch created from develop")
                     \/ Echoed(r, "New branch hotfix created")
    IN (r.kind = "cli" /\ r.sh.op \in {"gk_nb", "gk_nbh"})
         => /\ (success /\ r.run.st = 0) => allOk
            /\ ~allOk => r.run.st # 0

\* C15: the required binaries are checked before the sub-command is looked
\* at: whatever the sub-command (help and the empty one included), if one of
\* gh, fzf, jq is missing the process exits with status 1 and neither a gk_
\* function nor gk_help runs.
C15_DependenciesCheckedFirst ==
  \A s \in DOMAIN reqs :
    LET r == reqs[s] IN
    (r.kind = "cli" /\ r.env.missing # {})
      => /\ r.run.st = 1 /\ r.run.stop = "exit"
         /\ Called(r) = {}
         /\ \A i \in DOMAIN r.run.log : r.run.log[i].cmd = "echo"

C15_Witness ==
  \E s \in DOMAIN reqs :
    LET r == reqs[s] IN
    /\ r.kind = "cli" /\ r.env.missing = {"jq"}
    /\ r.gkitArgs = <<<<"help">>>>
    /\ r.run.st = 1 /\ Called(r) = {}

HelpTokens == {<<"help">>, <<"-h">>, <<"--help">>}
AsksHelp(r) == r.gkitArgs = <<>> \/ r.gkitArgs[1] \in HelpTokens \cup {<<>>}

\* C16 as stated: a token outside the table prints the usage and exits
\* non-zero without calling an operation; help, -h, --help and the empty
\* sub-command print the usage and exit 0.
C16_UsageAndStatus ==
  \A s \in DOMAIN reqs :
    LET r == reqs[s] IN
    r.kind = "cli" =>
      /\ AsksHelp(r) => (Called(r) = {"gk_help"} /\ r.run.st = 0)
      /\ (~AsksHelp(r) /\ r.gkitArgs[1] \notin DOMAIN CaseTable)
            => (Called(r) = {"gk_help"} /\ r.run.st # 0)

\* C16, amended: with gh, fzf and jq installed, a token outside the table
\* prints the usage and exits 1 without calling an operation, and help, -h,
\* --help and the empty sub-command print the usage and exit 0; with one of
\* them missing no usage is printed and the status is 1 in every case.
C16_UsageAndStatusWithDependencies ==
  \A s \in DOMAIN reqs :
    LET r == reqs[s] IN
    r.kind = "cli" =>
      /\ (r.env.missing = {} /\ AsksHelp(r))
            => (Called(r) = {"gk_help"} /\ r.run.st = 0)
      /\ (r.env.missing = {} /\ ~AsksHelp(r) /\ r.gkitArgs[1] \notin DOMAIN CaseTable)
            => (Called(r) = {"gk_help"} /\ r.run.st = 1 /\ r.run.stop = "exit")
      /\ r.env.missing # {} => (Called(r) = {} /\ r.run.st = 1)

C16_Witness ==
  \E s \in DOMAIN reqs :
    /\ reqs[s].kind = "cli" /\ reqs[s].env.missing = {}
    /\ reqs[s].gkitArgs = <<<<"zz">>, <<"feature-x">>>>
    /\ Called(reqs[s]) = {"gk_help"} /\ reqs[s].run.st = 1

\* The function each sub-command token of the command map stands for.
TokenFunction ==
  <<"pr">> :> "gk_pr" @@ <<"prs">> :> "gk_prs" @@ <<"nb">> :> "gk_nb" @@
  <<"nbs">> :> "gk_nbs" @@ <<"nbh">> :> "gk_nbh" @@ <<"ap">> :> "gk_approve" @@
  <<"mg">> :> "gk_merge" @@ <<"wf">> :> "gk_wf" @@ <<"sl">> :> "gk_slack"

\* C17: the names of GkitCommands are pairwise distinct, the command map has
\* an entry for each of them and for no other name, and every token it maps
\* to is in the case table of gkit.sh and dispatches to its own gk_ function,
\* not to the unknown-command branch; so does every child an adapter spawns.
C17_RegistryConsistent ==
  /\ \A i, j \in DOMAIN GkitCommands : GkitCommands[i].name = GkitCommands[j].name => i = j
  /\ DOMAIN srv.map = ToolNames
  /\ {srv.map[n] : n \in DOMAIN srv.map} = DOMAIN TokenFunction
  /\ \A n \in DOMAIN srv.map :
        /\ srv.map[n] \in DOMAIN CaseTable
        /\ Main(<<srv.map[n]>>, {}).branch = "case"
        /\ Main(<<srv.map[n]>>, {}).op = TokenFunction[srv.map[n]]
  /\ \A s \in DOMAIN reqs :
        (reqs[s].spawns = 1 /\ reqs[s].tool # 0) =>
          /\ reqs[s].command = srv.map[GkitCommands[reqs[s].tool].name]
          /\ Dispatched(reqs[s]).op = TokenFunction[reqs[s].command]

C17_Witness ==
  \E s \in DOMAIN reqs :
    /\ reqs[s].kind = "mcp" /\ reqs[s].name = Name3("send", "slack", "message")
    /\ reqs[s].spawns = 1 /\ reqs[s].command = <<"sl">>
    /\ Dispatched(reqs[s]).op = "gk_slack"

\* The entries of GkitCommands the command map has nothing for.
Unmapped == {i \in DOMAIN GkitCommands : GkitCommands[i].name \notin DOMAIN srv.map}

\* C18 as stated: an entry without a mapping is a configuration error at
\* start-up: the server does not come up serving, and no call is the first
\* to find the mapping missing.
C18_UnmappedEntryStopsStartup ==
  Unmapped # {} =>
    /\ ~srv.listening
    /\ \A s \in DOMAIN reqs :
          ~(reqs[s].tool \in Unmapped /\ reqs[s].pc = "done" /\ reqs[s].resp.isError)

\* C18, amended: the HTTP server warns about such an entry at start-up,
\* gives it no route and comes up serving the other entries, so a POST to
\* its endpoint is answered 404; the MCP handler finds the mapping missing
\* at call time only and answers 'Error: Unknown tool: <name>'. Neither
\* spawns anything for it.
C18_UnmappedEntryWarnedAndSkipped ==
  /\ srv.listening
  /\ srv.warned = Unmapped
  /\ srv.routes = DOMAIN GkitCommands \ Unmapped
  /\ \A s \in DOMAIN reqs : \A i \in DOMAIN GkitCommands :
        LET r == reqs[s] IN
        /\ (r.kind = "http" /\ r.name = Endpoint(GkitCommands[i].name) /\ i \in Unmapped)
              => (r.pc = "done" /\ r.resp.status = 404 /\ r.spawns = 0)
        /\ (r.kind = "http" /\ r.name = Endpoint(GkitCommands[i].name) /\ i \notin Unmapped)
              => (r.tool = i /\ r.resp.status # 404)
        /\ (r.kind = "mcp" /\ r.name = GkitCommands[i].name /\ i \in Unmapped
               /\ ~InvalidArguments(r.args))
              => /\ r.pc = "done" /\ r.resp.isError /\ r.spawns = 0
                 /\ r.resp.text = <<"Error: ", "Unknown tool: ">> \o r.name

C18_Witness ==
  \E s \in DOMAIN reqs :
    /\ Unmapped = {FindTool(Name2("approve", "pr"))}
    /\ srv.listening
    /\ reqs[s].kind = "mcp" /\ reqs[s].name = Name2("approve", "pr")
    /\ reqs[s].pc = "done" /\ reqs[s].resp.isError /\ reqs[s].spawns = 0

\* C19: the HTTP server has exactly one POST route per entry of
\* GkitCommands, at /api/<name with every underscore replaced by a hyphen>;
\* different commands have different endpoints, a path with an underscore
\* left in it has no route, and a route calls executeGkit with the token
\* mapped to its own command.
C19_OneRoutePerCommand ==
  /\ srv.routes = DOMAIN GkitCommands
  /\ \A i \in DOMAIN GkitCommands :
        LET name == GkitCommands[i].name
            e == Endpoint(name)
        IN /\ Len(e) = Len(name) + 1 /\ e[1] = "/api/"
           /\ \A k \in DOMAIN name : e[k + 1] = IF name[k] = "_" THEN "-" ELSE name[k]
           /\ \A j \in 1..(i - 1) : Endpoint(GkitCommands[j].name) # e
  /\ \A s \in DOMAIN reqs :
        LET r == reqs[s] IN
        r.kind = "http" =>
          /\ (\E k \in DOMAIN r.name : r.name[k] = "_") => (r.resp.status = 404 /\ r.spawns = 0)
          /\ r.spawns = 1 =>
                /\ r.tool \in srv.routes
                /\ r.name = Endpoint(GkitCommands[r.tool].name)
                /\ r.command = ToolToGkitCommandMap[GkitCommands[r.tool].name]

C19_Witness ==
  \E s \in DOMAIN reqs :
    /\ reqs[s].kind = "http"
    /\ reqs[s].name = <<"/api/", "create", "-", "branch", "-", "from", "-", "staging">>
    /\ reqs[s].spawns = 1 /\ reqs[s].command = <<"nbs">>

\* C20: the child's standard input is connected to nothing, so a read from
\* it inside the child sees the end of input at once and never blocks, and
\* the call still gets its 'close' event.
C20_ChildReadNeverBlocks ==
  \A s \in DOMAIN reqs :
    /\ reqs[s].spawns = 1 => reqs[s].stdin = "none"
    /\ reqs[s].child # "blocked"

\* C21: calls in flight together are isolated: whatever the interleaving of
\* data and close events, a call's buffers and result hold the chunks and
\* the exit code of its own child and nothing of another child's, a step of
\* one call leaves the other call as it was, and a new call is not held
\* back while another child runs.
IsolatedState ==
  \A s \in DOMAIN reqs :
    LET r == reqs[s] IN
    /\ r.stdout = Concat(r.outChunks) /\ r.stderr = Concat(r.errChunks)
    /\ \A k \in DOMAIN r.outChunks : r.outChunks[k] = PairOut(s)
    /\ \A k \in DOMAIN r.errChunks : r.errChunks[k] = PairErr(s)
    /\ \A t \in DOMAIN reqs \ {s} :
          /\ ~Mentions(r.stdout, t) /\ ~Mentions(r.stderr, t)
          /\ ~Mentions(r.result.output, t) /\ ~Mentions(r.result.error, t)
          /\ (Free(s) /\ reqs[t].child = "running")
                => ENABLED HttpPost(s, Endpoint(Name2("merge", "pr")),
                                    Obj(<< <<"pr_url", Str(PrUrl)>> >>))
    /\ r.resolves = 1 =>
          /\ r.result.success <=> (r.code = Num(0))
          /\ IsTrimOf(r.result.output, Concat(r.outChunks))
          /\ IsTrimOf(r.result.error, Concat(r.errChunks))

IsolatedStep ==
  \A s \in DOMAIN reqs : \A t \in DOMAIN reqs \ {s} :
    reqs'[s] # reqs[s] => reqs'[t] = reqs[t]

C21_ConcurrentCallsIsolated == [](IsolatedState) /\ [][IsolatedStep]_vars

C21_Witness ==
  /\ reqs["a"].child = "running" /\ reqs["b"].child = "running"
  /\ reqs["a"].outChunks = <<PairOut("a")>>
  /\ reqs["b"].outChunks = <<PairOut("b"), PairOut("b")>>
  /\ reqs["b"].errChunks = <<PairErr("b")>>

\* C22: an executeGkit call spawns exactly one child and never another; its
\* promise never rejects, is resolved once and only at the child's close
\* event, and stays pending while the child has not exited.
C22_OneChildResolvedAtClose ==
  \A s \in DOMAIN reqs :
    LET r == reqs[s] IN
    r.calls = 1 =>
      /\ r.spawns = 1
      /\ r.rejects = 0
      /\ r.resolves <= 1
      /\ r.resolves = 1 <=> r.child = "exited"
      /\ r.child # "exited" => (r.pc = "awaiting" /\ r.result = NoJson)

\* The positions in the log of a terminal run at which a command ran.
At(r, cmd) == {i \in DOMAIN r.run.log : r.run.log[i].cmd = cmd}

VersionText(v) == <<ToString(v[1]), ".", ToString(v[2])>>
Greatest(rs) ==
  CHOOSE v \in rs : \A w \in rs : w[1] < v[1] \/ (w[1] = v[1] /\ w[2] <= v[2])

\* C24: prs creates the pull request against release/v<V>, V the greatest
\* version among the remote branches origin/release/v*, which it lists
\* after a successful fetch; when the fetch fails or there is no such branch
\* it ends with a non-zero status and gh pr create is not called.
C24_PrsTargetsLatestRelease ==
  \A s \in DOMAIN reqs :
    LET r == reqs[s]
        log == r.run.log
        fetch == At(r, "git fetch")
        list == At(r, "git branch -r")
        create == At(r, "gh pr create")
    IN (r.kind = "cli" /\ r.sh.op = "gk_prs") =>
         /\ create # {} <=> (r.env.fetch /\ r.env.releases # {})
         /\ \A c \in create :
               /\ log[c].args[1] = <<"release/v">> \o VersionText(Greatest(r.env.releases))
               /\ log[c].args[2] = Param(r.sh.fargs, 2)
               /\ \E f \in fetch : \E l \in list : f < l /\ l < c
         /\ list # {} <=> r.env.fetch
         /\ \A f \in fetch : log[f].args = <<ParamOr(r.sh.fargs, 1, <<"origin">>)>>
         /\ (~r.env.fetch \/ r.env.releases = {}) => (r.run.st # 0 /\ create = {})

C24_Witness ==
  \E s \in DOMAIN reqs :
    LET r == reqs[s] IN
    /\ r.kind = "cli" /\ r.gkitArgs = <<<<"prs">>, <<"origin">>, <<"fix">>>>
    /\ r.env.releases = {<<1, 9>>, <<1, 10>>}
    /\ \E c \in At(r, "gh pr create") :
         r.run.log[c].args = <<<<"release/v", "1", ".", "10">>, <<"fix">>>>

\* C25: in every entry of GkitCommands the required names are declared
\* properties and come before every optional one, so in a marshaled
\* sequence whose request has all the required parameters each required
\* value sits at its declared position; only optional values shift.
C25_RequiredKeepTheirPosition ==
  /\ \A t \in DOMAIN GkitCommands :
        LET props == GkitCommands[t].properties
            req == Range(GkitCommands[t].required)
        IN /\ req \subseteq Range(props)
           /\ \A i, j \in DOMAIN props :
                (props[i] \in req /\ props[j] \notin req) => i < j
  /\ \A s \in DOMAIN reqs :
        LET r == reqs[s] IN
        (Marshals(r) /\ r.calls = 1 /\ \A p \in Required(r) : Has(r, p)) =>
          /\ Len(r.gkitArgs) >= Cardinality(Required(r))
          /\ \A i \in DOMAIN Props(r) :
                Props(r)[i] \in Required(r) => r.gkitArgs[i] = GetProp(r.args, Props(r)[i])
  /\ \A s \in DOMAIN reqs :
        (reqs[s].kind = "http" /\ reqs[s].calls = 1) => \A p \in Required(reqs[s]) : Has(reqs[s], p)

C25_Witness ==
  \E s \in DOMAIN reqs :
    LET r == reqs[s] IN
    /\ r.kind = "http" /\ r.calls = 1
    /\ GkitCommands[r.tool].name = Name2("create", "branch")
    /\ ~Has(r, "from") /\ Has(r, "remote")
    /\ r.gkitArgs = <<GetProp(r.args, "branch"), GetProp(r.args, "remote")>>
    /\ GetProp(r.args, "branch") = Str(<<"feature-x">>)
    /\ GetProp(r.args, "remote") = Str(<<"upstream">>)

\* C26: the HTTP route and the MCP handler marshal alike: for an argument
\* map the HTTP route accepts, each calls executeGkit with the token mapped
\* to the command and with the argument sequence the other one builds.
C26_AdaptersMarshalAlike ==
  \A s \in DOMAIN reqs :
    LET r == reqs[s]
        tool == GkitCommands[r.tool]
        accepted == \A p \in Required(r) : Has(r, p)
    IN /\ (Marshals(r) /\ accepted) =>
            /\ r.calls = 1
            /\ r.command = ToolToGkitCommandMap[tool.name]
            /\ r.gkitArgs = HttpArgs(tool, r.args)
            /\ r.gkitArgs = McpArgs(tool, r.args)
       /\ (Marshals(r) /\ r.kind = "http" /\ ~accepted) => (r.calls = 0 /\ r.resp.status = 400)

C26_Witness ==
  \E s \in DOMAIN reqs :
    LET r == reqs[s] IN
    /\ r.kind = "mcp" /\ r.calls = 1
    /\ GkitCommands[r.tool].name = Name2("create", "branch")
    /\ r.args = Obj(<< <<"remote", Str(<<"upstream">>)>>, <<"from", null>>,
                        <<"branch", Str(<<>>)>> >>)
    /\ r.gkitArgs = <<Str(<<>>), null, Str(<<"upstream">>)>>
    /\ r.gkitArgs = HttpArgs(GkitCommands[r.tool], r.args)

\* C27: the MCP handler never throws and never spawns on malformed input:
\* a call whose arguments are missing or no object is answered with the
\* error result 'Error: Invalid arguments provided' whatever the tool name,
\* without a child or any other work, and every exception raised while a
\* call is handled becomes an error result 'Error: <message>'.
C27_McpErrorsBecomeResults ==
  \A s \in DOMAIN reqs :
    LET r == reqs[s]
        malformed == r.args[1] # "object"
    IN r.kind = "mcp" =>
         /\ r.pc \in {"awaiting", "done"}
         /\ malformed =>
              /\ r.pc = "done"
              /\ r.resp.isError
              /\ r.resp.text = <<"Error: ", "Invalid arguments provided">>
              /\ r.calls = 0 /\ r.spawns = 0 /\ r.others = 0
         /\ (r.pc = "done" /\ r.resp.isError) =>
              (r.resp.text # <<>> /\ r.resp.text[1] = "Error: ")
         /\ (~malformed /\ r.name \in UnknownNames /\ ~Truthy(MapLookup(r.name))) =>
              (r.resp.isError /\ r.resp.text = <<"Error: ", "Unknown tool: ">> \o r.name)
         /\ (~malformed /\ r.name \in UnknownNames /\ Truthy(MapLookup(r.name))) =>
              (r.resp.isError /\ r.resp.text = <<"Error: ">> \o TypeErrorMessage /\ r.spawns = 0)
         /\ (r.resolves = 1 /\ ~r.result.success) =>
              /\ r.resp.isError
              /\ r.resp.text = <<"Error: ">> \o
                   (IF r.result.error # <<>> THEN r.result.error ELSE r.result.output)
         /\ r.rejects = 1 => (r.pc = "done" /\ r.resp.isError)

C27_Witness ==
  \E s \in DOMAIN reqs :
    LET r == reqs[s] IN
    /\ r.kind = "mcp" /\ r.pc = "done"
    /\ r.name = Name2("create", "pr")
    /\ r.args = Str(<<"feature-x">>)
    /\ r.resp.isError
    /\ r.resp.text = <<"Error: ", "Invalid arguments provided">>
    /\ r.spawns = 0

====
